---- MODULE Spec2Model ----
(***************************************************************************)
(* Model of the DDNS worker's request handler, src/src/index.ts.           *)
(*                                                                         *)
(* A JavaScript string is the sequence of its UTF-16 code units, each a    *)
(* number, so that split, indexOf, substring, endsWith, the base64 and     *)
(* UTF-8 conversions and the IP-literal parsers are computed unit by unit  *)
(* as the code and its libraries compute them.  Str writes such a string   *)
(* from its printable ASCII characters.  A value that may be null (a       *)
(* missing header or query parameter) is a record [present, value].        *)
(***************************************************************************)
EXTENDS Integers, Sequences, FiniteSets, TLC

(***************************************************************************)
(* Bounds of the model.                                                    *)
(***************************************************************************)
\* requests that overlap in the concurrent specification
MaxConcurrent == 2
\* requests served one after another in the sequential specification
MaxSequential == 3

(***************************************************************************)
(* String literals.                                                        *)
(***************************************************************************)
\* the printable ASCII characters in code order, " " being unit 32 (the
\* entry of unit 96, the grave accent, is written "U+0060")
Ascii ==
    <<" ", "!", "\"", "#", "$", "%", "&", "'", "(", ")", "*", "+", ",", "-",
      ".", "/", "0", "1", "2", "3", "4", "5", "6", "7", "8", "9", ":", ";",
      "<", "=", ">", "?", "@", "A", "B", "C", "D", "E", "F", "G", "H", "I",
      "J", "K", "L", "M", "N", "O", "P", "Q", "R", "S", "T", "U", "V", "W",
      "X", "Y", "Z", "[", "\\", "]", "^", "_", "U+0060", "a", "b", "c", "d", "e",
      "f", "g", "h", "i", "j", "k", "l", "m", "n", "o", "p", "q", "r", "s",
      "t", "u", "v", "w", "x", "y", "z", "{", "|", "}", "~">>

\* the code unit of a printable ASCII character
Code(c) == 31 + (CHOOSE i \in 1..Len(Ascii) : Ascii[i] = c)

\* the string of a sequence of printable ASCII characters
Str(s) == [i \in 1..Len(s) |-> Code(s[i])]

Space == Str(<<" ">>)
Colon == Str(<<":">>)
Dot == Str(<<".">>)
At == Str(<<"@">>)
Slash == Str(<<"/">>)
Percent == Str(<<"%">>)
EqualsSign == Str(<<"=">>)
Zero == Str(<<"0">>)

(***************************************************************************)
(* JavaScript string primitives.  Positions are 0-based as in JavaScript.  *)
(***************************************************************************)
Max(a, b) == IF a >= b THEN a ELSE b
Min(a, b) == IF a <= b THEN a ELSE b

\* s.substring(a, b): arguments clamped to [0, length], swapped when a > b
Substring(s, a, b) ==
    LET ca == Max(0, Min(a, Len(s)))
        cb == Max(0, Min(b, Len(s)))
        lo == Min(ca, cb)
        hi == Max(ca, cb)
    IN  SubSeq(s, lo + 1, hi)

\* s.substring(a)
SubstringFrom(s, a) == Substring(s, a, Len(s))

\* does t occur in s at 0-based position i
OccursAt(s, t, i) ==
    /\ i >= 0
    /\ i + Len(t) <= Len(s)
    /\ SubSeq(s, i + 1, i + Len(t)) = t

\* s.indexOf(t): first position of t in s, -1 when there is none
IndexOf(s, t) ==
    IF \E i \in 0..Len(s) : OccursAt(s, t, i)
    THEN CHOOSE i \in 0..Len(s) :
            /\ OccursAt(s, t, i)
            /\ \A j \in 0..(i - 1) : ~OccursAt(s, t, j)
    ELSE -1

\* s.endsWith(t)
EndsWith(s, t) == OccursAt(s, t, Len(s) - Len(t))

\* s.split(sep) for a non-empty separator: every piece, empty ones included
RECURSIVE Split(_, _)
Split(s, sep) ==
    LET i == IndexOf(s, sep)
    IN  IF i = -1
        THEN <<s>>
        ELSE <<Substring(s, 0, i)>> \o Split(SubstringFrom(s, i + Len(sep)), sep)

\* pieces.join(sep)
RECURSIVE Join(_, _)
Join(pieces, sep) ==
    IF Len(pieces) = 0 THEN <<>>
    ELSE IF Len(pieces) = 1 THEN pieces[1]
    ELSE pieces[1] \o sep \o Join(Tail(pieces), sep)

\* a value that may be null
Null == [present |-> FALSE, value |-> <<>>]
Some(s) == [present |-> TRUE, value |-> s]
\* JavaScript !x for a string or null: null and "" are falsy
Falsy(x) == ~x.present \/ x.value = <<>>

(***************************************************************************)
(* UTF-8: Buffer.toString() decodes bytes to a string and                  *)
(* TextEncoder.encode encodes a string to bytes.                           *)
(***************************************************************************)
\* U+FFFD, what decoding yields for each ill-formed stretch of bytes and
\* encoding for an unpaired surrogate
Replacement == <<65533>>

\* the code units of a code point: itself, or a surrogate pair above U+FFFF
CodeUnits(cp) ==
    IF cp < 65536 THEN <<cp>>
    ELSE <<55296 + ((cp - 65536) \div 1024), 56320 + ((cp - 65536) % 1024)>>

\* the UTF-8 decoder: needed and seen count the continuation bytes of the
\* sequence being read, lower..upper is the range the next one must lie in,
\* cp the code point read so far.  A byte that cannot start a sequence, and
\* a sequence cut short by a byte that cannot continue it or by the end,
\* yield one U+FFFD; the byte that cut it short is read again.
RECURSIVE Utf8Decode(_, _, _, _, _, _)
Utf8Decode(bytes, needed, seen, lower, upper, cp) ==
    IF bytes = <<>>
    THEN IF needed # 0 THEN Replacement ELSE <<>>
    ELSE IF needed = 0
    THEN IF Head(bytes) <= 127
         THEN <<Head(bytes)>> \o Utf8Decode(Tail(bytes), 0, 0, 128, 191, 0)
         ELSE IF Head(bytes) \in 194..223
         THEN Utf8Decode(Tail(bytes), 1, 0, 128, 191, Head(bytes) - 192)
         ELSE IF Head(bytes) \in 224..239
         THEN Utf8Decode(Tail(bytes), 2, 0,
                         IF Head(bytes) = 224 THEN 160 ELSE 128,
                         IF Head(bytes) = 237 THEN 159 ELSE 191,
                         Head(bytes) - 224)
         ELSE IF Head(bytes) \in 240..244
         THEN Utf8Decode(Tail(bytes), 3, 0,
                         IF Head(bytes) = 240 THEN 144 ELSE 128,
                         IF Head(bytes) = 244 THEN 143 ELSE 191,
                         Head(bytes) - 240)
         ELSE Replacement \o Utf8Decode(Tail(bytes), 0, 0, 128, 191, 0)
    ELSE IF Head(bytes) \notin lower..upper
    THEN Replacement \o Utf8Decode(bytes, 0, 0, 128, 191, 0)
    ELSE IF seen + 1 = needed
    THEN CodeUnits(cp * 64 + (Head(bytes) - 128))
            \o Utf8Decode(Tail(bytes), 0, 0, 128, 191, 0)
    ELSE Utf8Decode(Tail(bytes), needed, seen + 1, 128, 191,
                    cp * 64 + (Head(bytes) - 128))

\* Buffer.toString(): bytes -> string
BytesToString(bytes) == Utf8Decode(bytes, 0, 0, 128, 191, 0)

\* the UTF-8 bytes of a code point
Utf8Bytes(cp) ==
    IF cp < 128 THEN <<cp>>
    ELSE IF cp < 2048 THEN <<192 + (cp \div 64), 128 + (cp % 64)>>
    ELSE IF cp < 65536
    THEN <<224 + (cp \div 4096), 128 + ((cp \div 64) % 64), 128 + (cp % 64)>>
    ELSE <<240 + (cp \div 262144), 128 + ((cp \div 4096) % 64),
           128 + ((cp \div 64) % 64), 128 + (cp % 64)>>

IsHighSurrogate(u) == u \in 55296..56319
IsLowSurrogate(u) == u \in 56320..57343

\* encoder.encode(s): string -> bytes; a surrogate pair is one code point
RECURSIVE Encode(_)
Encode(s) ==
    IF s = <<>> THEN <<>>
    ELSE IF Len(s) >= 2 /\ IsHighSurrogate(s[1]) /\ IsLowSurrogate(s[2])
    THEN Utf8Bytes(65536 + (s[1] - 55296) * 1024 + (s[2] - 56320))
            \o Encode(SubSeq(s, 3, Len(s)))
    ELSE IF IsHighSurrogate(s[1]) \/ IsLowSurrogate(s[1])
    THEN Utf8Bytes(Replacement[1]) \o Encode(Tail(s))
    ELSE Utf8Bytes(s[1]) \o Encode(Tail(s))

(***************************************************************************)
(* Buffer.from(encoded, "base64"): characters outside the alphabet are     *)
(* skipped, decoding stops at the first "=", each full group of four       *)
(* sextets gives three bytes, a trailing group of three gives two bytes    *)
(* and of two gives one.                                                   *)
(***************************************************************************)
Base64Alphabet ==
    Str(<<"A", "B", "C", "D", "E", "F", "G", "H", "I", "J", "K", "L", "M", "N",
          "O", "P", "Q", "R", "S", "T", "U", "V", "W", "X", "Y", "Z", "a", "b",
          "c", "d", "e", "f", "g", "h", "i", "j", "k", "l", "m", "n", "o", "p",
          "q", "r", "s", "t", "u", "v", "w", "x", "y", "z", "0", "1", "2", "3",
          "4", "5", "6", "7", "8", "9", "+", "/">>)
\* the URL-safe characters for 62 and 63
Base64Url == Str(<<"-", "_">>)

IsBase64Char(c) ==
    \/ \E i \in 1..Len(Base64Alphabet) : Base64Alphabet[i] = c
    \/ \E i \in 1..Len(Base64Url) : Base64Url[i] = c

\* the sextet of a base64 character
Base64Value(c) ==
    IF c = Base64Url[1] THEN 62
    ELSE IF c = Base64Url[2] THEN 63
    ELSE (CHOOSE i \in 1..Len(Base64Alphabet) : Base64Alphabet[i] = c) - 1

\* the sextets of the token, up to the first "="
RECURSIVE Sextets(_)
Sextets(s) ==
    IF s = <<>> \/ Head(s) = EqualsSign[1] THEN <<>>
    ELSE IF IsBase64Char(Head(s))
         THEN <<Base64Value(Head(s))>> \o Sextets(Tail(s))
         ELSE Sextets(Tail(s))

RECURSIVE SextetsToBytes(_)
SextetsToBytes(q) ==
    IF Len(q) < 2 THEN <<>>
    ELSE LET b1 == q[1] * 4 + (q[2] \div 16)
         IN  IF Len(q) = 2 THEN <<b1>>
             ELSE LET b2 == (q[2] % 16) * 16 + (q[3] \div 4)
                  IN  IF Len(q) = 3 THEN <<b1, b2>>
                      ELSE <<b1, b2, (q[3] % 4) * 64 + q[4]>>
                               \o SextetsToBytes(SubSeq(q, 5, Len(q)))

Base64Decode(encoded) == SextetsToBytes(Sextets(encoded))

(***************************************************************************)
(* timingSafeEqual and the authentication gate of fetch.                   *)
(***************************************************************************)
timingSafeEqual(a, b) ==
    LET aBytes == Encode(a)
        bBytes == Encode(b)
    IN  IF Len(aBytes) # Len(bBytes)
        THEN FALSE
        ELSE \A i \in 1..Len(aBytes) : aBytes[i] = bBytes[i]

\* const [scheme, encoded] = authorization.split(" ")
SchemeOf(authorization) == Some(Split(authorization, Space)[1])
EncodedOf(authorization) ==
    LET parts == Split(authorization, Space)
    IN  IF Len(parts) >= 2 THEN Some(parts[2]) ELSE Null

\* Buffer.from(encoded, "base64").toString()
CredentialsOf(encoded) == BytesToString(Base64Decode(encoded))

\* credentials.substring(0, credentials.indexOf(":"))
UserOf(credentials) == Substring(credentials, 0, IndexOf(credentials, Colon))
\* credentials.substring(credentials.indexOf(":") + 1)
PassOf(credentials) == SubstringFrom(credentials, IndexOf(credentials, Colon) + 1)

Basic == Str(<<"B", "a", "s", "i", "c">>)

\* the outcome of lines 43-81 for a header and the configured credentials
AuthGate(authorization, e) ==
    IF Falsy(authorization) THEN "Unauthenticated"
    ELSE IF Falsy(EncodedOf(authorization.value))
            \/ SchemeOf(authorization.value).value # Basic
         THEN "Malformed"
    ELSE LET credentials == CredentialsOf(EncodedOf(authorization.value).value)
         IN  IF \/ ~timingSafeEqual(e.BASIC_USER, UserOf(credentials))
                \/ ~timingSafeEqual(e.BASIC_PASS, PassOf(credentials))
             THEN "Invalid"
             ELSE "Authenticated"

(***************************************************************************)
(* Address4 and Address6 of the ip-address package, as fetch uses them:    *)
(* isValid (the constructor does not throw) and correctForm.  Both         *)
(* constructors take a trailing "/mask" off the literal, Address6 also a   *)
(* "%zone", before they parse the address.                                 *)
(***************************************************************************)
Digits == Str(<<"0", "1", "2", "3", "4", "5", "6", "7", "8", "9">>)
HexDigits == Digits \o Str(<<"a", "b", "c", "d", "e", "f">>)
UpperHex == Str(<<"A", "B", "C", "D", "E", "F">>)
\* the code units a "." of a regular expression does not match
LineTerminators == {10, 13, 8232, 8233}

IsDigit(c) == \E i \in 1..10 : Digits[i] = c
IsHexDigit(c) ==
    \/ \E i \in 1..16 : HexDigits[i] = c
    \/ \E i \in 1..6 : UpperHex[i] = c

\* the value of a hexadecimal digit, either case; 16 for any other unit
HexValue(c) ==
    IF \E i \in 1..16 : HexDigits[i] = c
    THEN (CHOOSE i \in 1..16 : HexDigits[i] = c) - 1
    ELSE IF \E i \in 1..6 : UpperHex[i] = c
    THEN (CHOOSE i \in 1..6 : UpperHex[i] = c) + 9
    ELSE 16

\* the number of leading units of s that are digits of the base
RECURSIVE DigitsPrefix(_, _)
DigitsPrefix(s, base) ==
    IF s = <<>> \/ HexValue(Head(s)) >= base THEN 0
    ELSE 1 + DigitsPrefix(Tail(s), base)

\* the value of a string of digits of the base
RECURSIVE ValueOf(_, _)
ValueOf(s, base) ==
    IF s = <<>> THEN 0
    ELSE ValueOf(SubSeq(s, 1, Len(s) - 1), base) * base + HexValue(s[Len(s)])

\* what parseInt returns for a string that starts with no digit
NaN == -1

\* parseInt(s, base): the value of the leading digits of s.  (No caller
\* passes a string with leading white space, a sign or a "0x" prefix.)
ParseInt(s, base) ==
    IF DigitsPrefix(s, base) = 0 THEN NaN
    ELSE ValueOf(SubSeq(s, 1, DigitsPrefix(s, base)), base)

\* n.toString(base), lower case, no leading zeros
RECURSIVE NumberToString(_, _)
NumberToString(n, base) ==
    IF n < base THEN <<HexDigits[n + 1]>>
    ELSE NumberToString(n \div base, base) \o <<HexDigits[(n % base) + 1]>>

\* sprintf("%x", n): NaN is written "0"
Sprintf16(n) == NumberToString(IF n = NaN THEN 0 ELSE n, 16)

\* one group of RE_ADDRESS: 25[0-5] | 2[0-4][0-9] | [01]?[0-9][0-9]?
IsOctet(g) ==
    /\ Len(g) \in 1..3
    /\ \A i \in 1..Len(g) : IsDigit(g[i])
    /\ Len(g) = 3 => ParseInt(g, 10) <= 255

\* the whole string matches constants4.RE_ADDRESS
MatchesAddress4(a) ==
    /\ Len(Split(a, Dot)) = 4
    /\ \A i \in 1..4 : IsOctet(Split(a, Dot)[i])

\* the 0-based position where "/" and one to maxDigits digits end the
\* string; -1 when it does not end so
SubnetAtEnd(a, maxDigits) ==
    IF \E k \in 1..maxDigits :
          /\ Len(a) > k
          /\ a[Len(a) - k] = Slash[1]
          /\ \A j \in (Len(a) - k + 1)..Len(a) : IsDigit(a[j])
    THEN Len(a) - 1 - (CHOOSE k \in 1..maxDigits :
                          /\ Len(a) > k
                          /\ a[Len(a) - k] = Slash[1]
                          /\ \A j \in (Len(a) - k + 1)..Len(a) : IsDigit(a[j]))
    ELSE -1

\* the Address4 constructor up to parse: RE_SUBNET_STRING, /\/\d{1,2}$/,
\* is taken off the literal; a mask above 32 throws.  [ok, address]
Suffix4At(a, at) ==
    IF at = -1 THEN [ok |-> TRUE, address |-> a]
    ELSE IF ParseInt(SubstringFrom(a, at + 1), 10) > 32
    THEN [ok |-> FALSE, address |-> a]
    ELSE [ok |-> TRUE, address |-> Substring(a, 0, at)]

AddressMinusSuffix4(a) == Suffix4At(a, SubnetAtEnd(a, 2))

\* Address4.isValid: the constructor does not throw
Address4IsValid(a) ==
    /\ AddressMinusSuffix4(a).ok
    /\ MatchesAddress4(AddressMinusSuffix4(a).address)

\* Address4.correctForm: parsedAddress.map(parseInt).join(".")
Address4Correct(groups) ==
    Join([i \in 1..Len(groups) |-> NumberToString(ParseInt(groups[i], 10), 10)],
         Dot)

Address4CorrectForm(a) ==
    Address4Correct(Split(AddressMinusSuffix4(a).address, Dot))

\* Address4.toGroup6: the four octets as two hexadecimal groups
Address4ToGroup6(a) ==
    LET o == [i \in 1..4 |-> ParseInt(Split(a, Dot)[i], 10)]
    IN  NumberToString(o[1] * 256 + o[2], 16) \o Colon
            \o NumberToString(o[3] * 256 + o[4], 16)

\* /^0[0-9]+/ on an octet of an embedded IPv4 tail
HasLeadingZero(g) == Len(g) >= 2 /\ g[1] = Zero[1] /\ IsDigit(g[2])

\* does RE_SUBNET_STRING of Address6, /\/\d{1,3}(?=%|$)/, match k digits at
\* 0-based position i
Subnet6Matches(a, i, k) ==
    /\ i + k < Len(a)
    /\ a[i + 1] = Slash[1]
    /\ \A j \in (i + 2)..(i + 1 + k) : IsDigit(a[j])
    /\ i + 1 + k = Len(a) \/ a[i + 2 + k] = Percent[1]

\* the leftmost match, as <<position, digits>>; <<-1, 0>> when none
Subnet6Match(a) ==
    IF \E i \in 0..(Len(a) - 1), k \in 1..3 : Subnet6Matches(a, i, k)
    THEN CHOOSE m \in (0..(Len(a) - 1)) \X (1..3) :
            /\ Subnet6Matches(a, m[1], m[2])
            /\ \A j \in 0..(m[1] - 1), k \in 1..3 : ~Subnet6Matches(a, j, k)
    ELSE <<-1, 0>>

\* the Address6 constructor's subnet step: the match is taken out and a
\* mask above 128 throws; without a match any "/" throws.  [ok, address]
Subnet6Removed(a, m) ==
    IF m[1] = -1
    THEN [ok |-> IndexOf(a, Slash) = -1, address |-> a]
    ELSE IF ParseInt(Substring(a, m[1] + 1, m[1] + 1 + m[2]), 10) > 128
    THEN [ok |-> FALSE, address |-> a]
    ELSE [ok |-> TRUE,
          address |-> Substring(a, 0, m[1])
                         \o SubstringFrom(a, m[1] + 1 + m[2])]

\* does RE_ZONE_STRING, /%.*$/, match at 0-based position i
ZoneStringAt(a, i) ==
    /\ a[i + 1] = Percent[1]
    /\ \A j \in (i + 2)..Len(a) : a[j] \notin LineTerminators

\* the constructor's zone step: the leftmost match is taken off
ZoneRemoved(a) ==
    IF \E i \in 0..(Len(a) - 1) : ZoneStringAt(a, i)
    THEN Substring(a, 0, CHOOSE i \in 0..(Len(a) - 1) :
                            /\ ZoneStringAt(a, i)
                            /\ \A j \in 0..(i - 1) : ~ZoneStringAt(a, j))
    ELSE a

\* the Address6 constructor up to parse.  [ok, address]
Suffix6Of(s) == [ok |-> s.ok, address |-> ZoneRemoved(s.address)]

AddressMinusSuffix6(a) == Suffix6Of(Subnet6Removed(a, Subnet6Match(a)))

\* Address6.parse4in6: a trailing dotted quad becomes two groups; the result
\* is [ok, address]
Parse4in6Groups(a, groups, lastGroup) ==
    IF ~MatchesAddress4(lastGroup)
    THEN [ok |-> TRUE, address |-> a]
    ELSE IF \E i \in 1..4 : HasLeadingZero(Split(lastGroup, Dot)[i])
    THEN [ok |-> FALSE, address |-> a]
    ELSE [ok |-> TRUE,
          address |-> Join(SubSeq(groups, 1, Len(groups) - 1)
                              \o <<Address4ToGroup6(lastGroup)>>, Colon)]

Parse4in6Of(a, groups) == Parse4in6Groups(a, groups, groups[Len(groups)])

Parse4in6(a) == Parse4in6Of(a, Split(a, Colon))

\* RE_BAD_CHARACTERS: anything but a hexadecimal digit, ":", "/" or "%"
HasBadCharacters(a) ==
    \E i \in 1..Len(a) :
        ~IsHexDigit(a[i]) /\ a[i] \notin {Colon[1], Slash[1], Percent[1]}

\* RE_BAD_ADDRESS: [0-9a-f]{5,} | :{3,} | [^:]:$ | ^:[^:] | \/$
IsBadAddress(a) ==
    \/ \E i \in 1..(Len(a) - 4) : \A j \in i..(i + 4) : IsHexDigit(a[j])
    \/ \E i \in 1..(Len(a) - 2) : \A j \in i..(i + 2) : a[j] = Colon[1]
    \/ Len(a) >= 2 /\ a[Len(a)] = Colon[1] /\ a[Len(a) - 1] # Colon[1]
    \/ Len(a) >= 2 /\ a[1] = Colon[1] /\ a[2] # Colon[1]
    \/ Len(a) >= 1 /\ a[Len(a)] = Slash[1]

\* half.split(":"), where the empty half has no group
HalfGroups(half) == IF half = <<>> THEN <<>> ELSE Split(half, Colon)

\* the groups around "::" (an address has 8 groups) with the elided ones filled with "0"; <<>> when
\* nothing is left to elide ("Error parsing groups")
Elided(first, last) ==
    IF 8 - (Len(first) + Len(last)) = 0 THEN <<>>
    ELSE first
            \o [i \in 1..Max(8 - (Len(first) + Len(last)), 0) |-> Zero]
            \o last

\* Address6.parse after parse4in6 and the two regular expressions: the groups
\* of the address; <<>> when parse throws
GroupsOfHalves(a, halves) ==
    IF Len(halves) = 2
    THEN Elided(HalfGroups(halves[1]), HalfGroups(halves[2]))
    ELSE IF Len(halves) = 1 THEN Split(a, Colon)
    ELSE <<>>

Groups6(a) == GroupsOfHalves(a, Split(a, Colon \o Colon))

\* groups.map(parseInt 16 -> %x) when there are exactly eight; else <<>>
Normalised(groups) ==
    IF Len(groups) # 8 THEN <<>>
    ELSE [i \in 1..8 |-> Sprintf16(ParseInt(groups[i], 16))]

ParsedFrom(p) ==
    IF ~p.ok \/ HasBadCharacters(p.address) \/ IsBadAddress(p.address)
    THEN <<>>
    ELSE Normalised(Groups6(p.address))

ParsedOf(s) == IF ~s.ok THEN <<>> ELSE ParsedFrom(Parse4in6(s.address))

\* the parsed groups of a literal, each as lower-case hexadecimal without
\* leading zeros; <<>> when the constructor throws
ParsedAddress6(a) == ParsedOf(AddressMinusSuffix6(a))

Address6IsValid(a) == ParsedAddress6(a) # <<>>

\* is [lo, hi] a maximal run of two or more zero groups of seq
IsZeroRun(seq, lo, hi) ==
    /\ hi > lo
    /\ \A i \in lo..hi : seq[i] = Zero
    /\ lo = 1 \/ seq[lo - 1] # Zero
    /\ hi = Len(seq) \/ seq[hi + 1] # Zero

ZeroRuns(parsed) ==
    {r \in (1..Len(parsed)) \X (1..Len(parsed)) : IsZeroRun(parsed, r[1], r[2])}

\* the first of the longest runs
BestRun(runs) ==
    CHOOSE r \in runs :
        \A q \in runs :
            \/ q[2] - q[1] < r[2] - r[1]
            \/ q[2] - q[1] = r[2] - r[1] /\ q[1] >= r[1]

\* compact(): the groups with the run [lo, hi] written "::"
Compact(parsed, best) ==
    Join(SubSeq(parsed, 1, best[1] - 1), Colon)
        \o Colon \o Colon
        \o Join(SubSeq(parsed, best[2] + 1, Len(parsed)), Colon)

CorrectFormOf(parsed, runs) ==
    IF runs = {} THEN Join(parsed, Colon) ELSE Compact(parsed, BestRun(runs))

CorrectForm6(parsed) == CorrectFormOf(parsed, ZeroRuns(parsed))

\* Address6.correctForm: the first longest run of two or more zero groups is
\* written "::"
Address6CorrectForm(a) == CorrectForm6(ParsedAddress6(a))

\* line 105: the address object, or null
NoAddress == [valid |-> FALSE, v4 |-> FALSE, correct |-> <<>>]
AddressOf(myip) ==
    IF Address4IsValid(myip)
    THEN [valid |-> TRUE, v4 |-> TRUE, correct |-> Address4CorrectForm(myip)]
    ELSE IF Address6IsValid(myip)
    THEN [valid |-> TRUE, v4 |-> FALSE, correct |-> Address6CorrectForm(myip)]
    ELSE NoAddress

(***************************************************************************)
(* Zone and record resolution and the record body, lines 99-136.           *)
(***************************************************************************)
NoZone == [id |-> "", name |-> <<>>]
NoRecord == [id |-> 0, name |-> <<>>, type |-> "", content |-> <<>>,
             ttl |-> 0, proxied |-> FALSE]
NoBody == [content |-> <<>>, name |-> <<>>, ttl |-> 0, proxied |-> FALSE,
           type |-> ""]

\* a find that prefers the longest matching zone name
FindZoneLongest(zs, hostname) ==
    IF \E i \in 1..Len(zs) : EndsWith(hostname, zs[i].name)
    THEN zs[CHOOSE i \in 1..Len(zs) :
                /\ EndsWith(hostname, zs[i].name)
                /\ \A j \in 1..Len(zs) :
                      EndsWith(hostname, zs[j].name)
                          => Len(zs[j].name) <= Len(zs[i].name)]
    ELSE NoZone

\* zones.result.find((z) => hostname.endsWith(z.name))
FindZone(zs, hostname) ==
    IF \E i \in 1..Len(zs) : EndsWith(hostname, zs[i].name)
    THEN zs[CHOOSE i \in 1..Len(zs) :
                /\ EndsWith(hostname, zs[i].name)
                /\ \A j \in 1..(i - 1) : ~EndsWith(hostname, zs[j].name)]
    ELSE NoZone

\* a find that returns the last record of that name
FindRecordLast(rs, hostname) ==
    IF \E i \in 1..Len(rs) : rs[i].name = hostname
    THEN rs[CHOOSE i \in 1..Len(rs) :
                /\ rs[i].name = hostname
                /\ \A j \in (i + 1)..Len(rs) : rs[j].name # hostname]
    ELSE NoRecord

\* records.result.find((r) => r.name === hostname)
FindRecord(rs, hostname) ==
    IF \E i \in 1..Len(rs) : rs[i].name = hostname
    THEN rs[CHOOSE i \in 1..Len(rs) :
                /\ rs[i].name = hostname
                /\ \A j \in 1..(i - 1) : rs[j].name # hostname]
    ELSE NoRecord

\* hostname === zone.name ? "@" : hostname.split(`.${zone.name}`)[0]
RecordName(hostname, zoneName) ==
    IF hostname = zoneName THEN At
    ELSE Split(hostname, Dot \o zoneName)[1]

\* a body whose content is myip as it was sent
NewRecordRaw(hostname, zoneName, myip) ==
    [content |-> myip,
     name |-> RecordName(hostname, zoneName),
     ttl |-> 300,
     proxied |-> FALSE,
     type |-> IF Address4IsValid(myip) THEN "A"
              ELSE IF Address6IsValid(myip) THEN "AAAA"
              ELSE ""]

\* baseRecord with the type of lines 126-136
NewRecord(hostname, zoneName, myip) ==
    LET address == AddressOf(myip)
    IN  [content |-> address.correct,
         name |-> RecordName(hostname, zoneName),
         ttl |-> 300,
         proxied |-> FALSE,
         type |-> IF Address4IsValid(myip) THEN "A"
                  ELSE IF Address6IsValid(myip) THEN "AAAA"
                  ELSE ""]

\* lines 99-112: what fetch does with the zones it was given
AfterZones(zs, hostname, myip) ==
    IF FindZone(zs, hostname) = NoZone THEN "ZoneNotFound"
    ELSE IF ~AddressOf(myip).valid THEN "InvalidAddress"
    ELSE "ListRecords"

(***************************************************************************)
(* The DNS provider behind cloudflare.zones and cloudflare.dns.records:    *)
(* it keeps every record under its full name ("@" is the zone's own name,  *)
(* a name outside the zone is taken relative to it) and gives a created    *)
(* record a fresh, non-empty id.                                           *)
(***************************************************************************)
ProviderName(name, zoneName) ==
    IF name = At THEN zoneName
    ELSE IF name = zoneName \/ EndsWith(name, Dot \o zoneName) THEN name
    ELSE name \o Dot \o zoneName

Stored(id, body, zoneName) ==
    [id |-> id, name |-> ProviderName(body.name, zoneName), type |-> body.type,
     content |-> body.content, ttl |-> body.ttl, proxied |-> body.proxied]

(***************************************************************************)
(* The values the requests, the configuration and the provider's initial   *)
(* zones and records are drawn from.                                       *)
(***************************************************************************)
EC == Str(<<"e", ".", "c">>)
SEC == Str(<<"s", ".", "e", ".", "c">>)
HostApex == EC
HostHome == Str(<<"h", ".", "e", ".", "c">>)
HostChild == Str(<<"h", ".", "s", ".", "e", ".", "c">>)
HostNoDot == Str(<<"h", "e", ".", "c">>)
HostTwice == Str(<<"h", ".", "e", ".", "c", ".", "e", ".", "c">>)
HostOther == Str(<<"x", ".", "n">>)
HostW == Str(<<"w", ".", "e", ".", "c">>)

Ip4 == Str(<<"1", ".", "2", ".", "3", ".", "4">>)
Ip4Zeros == Str(<<"0", "1", ".", "2", ".", "3", ".", "4">>)
IpShort == Str(<<"1", ".", "2", ".", "3">>)
Ip6 == Str(<<"A", ":", ":", "1">>)
Ip6Long == Str(<<"0", ":", "0", ":", "0", ":", "0", ":", "0", ":", "0", ":", "0", ":", "1">>)
IpBad6 == Str(<<"g", ":", ":", "1">>)
Ip4Subnet == Str(<<"1", ".", "2", ".", "3", ".", "4", "/", "2", "4">>)
Ip6Zone == Str(<<"A", ":", ":", "1", "/", "6", "4", "%", "e">>)

\* base64 of "u:p", "u:x", "p", "u:p:q" and ":p"
TokUP == Str(<<"d", "T", "p", "w">>)
TokUX == Str(<<"d", "T", "p", "4">>)
TokP == Str(<<"c", "A", "=", "=">>)
TokUPQ == Str(<<"d", "T", "p", "w", "O", "n", "E", "=">>)
TokColonP == Str(<<"O", "n", "A", "=">>)
\* base64 of the bytes 75 0A 3A 70, "u", a line feed and ":p"
TokLineFeed == Str(<<"d", "Q", "o", "6", "c", "A", "=", "=">>)
\* base64 of the bytes C3 A9 3A E2 82: U+00E9, ":" and a three-byte sequence
\* cut short after its second byte
TokAccent == Str(<<"w", "6", "k", "6", "4", "o", "I", "=">>)
\* U+00E9
EAcute == <<233>>

Authorizations ==
    { Null,
      Some(<<>>),
      Some(Basic),
      Some(Basic \o Space),
      Some(Basic \o Space \o Space \o TokUP),
      Some(Str(<<"b", "a", "s", "i", "c">>) \o Space \o TokUP),
      Some(Str(<<"B", "e", "a", "r", "e", "r">>) \o Space \o TokUP),
      Some(Basic \o Space \o TokUP),
      Some(Basic \o Space \o TokUP \o Space \o Str(<<"x">>)),
      Some(Basic \o Space \o TokUX),
      Some(Basic \o Space \o TokP),
      Some(Basic \o Space \o TokUPQ),
      Some(Basic \o Space \o TokColonP),
      Some(Basic \o Space \o TokLineFeed),
      Some(Basic \o Space \o TokAccent) }

Envs ==
    { [BASIC_USER |-> Str(<<"u">>), BASIC_PASS |-> Str(<<"p">>)],
      [BASIC_USER |-> Str(<<"u">>), BASIC_PASS |-> Str(<<"p", ":", "q">>)],
      [BASIC_USER |-> <<>>, BASIC_PASS |-> Str(<<"p">>)],
      [BASIC_USER |-> EAcute, BASIC_PASS |-> Replacement] }

Hostnames ==
    { Null, Some(<<>>), Some(HostApex), Some(HostHome), Some(HostChild),
      Some(HostNoDot), Some(HostTwice), Some(HostOther) }

MyIps ==
    { Null, Some(<<>>), Some(Ip4), Some(Ip4Zeros), Some(IpShort), Some(Ip6),
      Some(Ip6Long), Some(IpBad6), Some(Ip4Subnet), Some(Ip6Zone) }

Zone1 == [id |-> "z1", name |-> EC]
Zone2 == [id |-> "z2", name |-> SEC]
ZoneIds == {"z1", "z2"}
ZoneLists == { <<Zone1, Zone2>>, <<Zone2, Zone1>>, <<Zone2>> }

Rec(id, name, type, content) ==
    [id |-> id, name |-> name, type |-> type, content |-> content,
     ttl |-> 300, proxied |-> FALSE]

Old4 == Str(<<"9", ".", "9", ".", "9", ".", "9">>)
Old6 == Str(<<":", ":", "9">>)

\* the records zone z1 may hold at the start
InitialRecords1 ==
    { <<>>,
      <<Rec(1, HostHome, "A", Old4)>>,
      <<Rec(1, HostW, "A", Old4), Rec(2, HostHome, "AAAA", Old6),
        Rec(3, HostHome, "A", Old4)>>,
      <<Rec(1, HostApex, "A", Old4), Rec(2, HostTwice, "A", Old4),
        Rec(3, HostChild, "AAAA", Old6)>> }

\* the records zone z2 may hold at the start
InitialRecords2 ==
    { <<>>, <<Rec(4, HostChild, "A", Old4)>> }

Requests == 1..Max(MaxConcurrent, MaxSequential)

(***************************************************************************)
(* State.                                                                  *)
(***************************************************************************)
VARIABLES
    env,          \* env.BASIC_USER and env.BASIC_PASS
    provZones,    \* the provider's zones, in the order zones.list returns them
    provRecords,  \* the provider's records of each zone, in list order
    request,      \* per request: the Authorization header, hostname and myip
    pc,           \* per request: "idle", the provider call it awaits, "done"
                  \* (a Response was returned) or "threw" (fetch rejected)
    zone,         \* per request: the local zone
    records,      \* per request: the local records.result
    record,       \* per request: the local record
    newRecord,    \* per request: the local newRecord
    calls,        \* per request: the provider calls issued, with their results
    response      \* per request: the Response returned

vars == <<env, provZones, provRecords, request, pc, zone, records, record,
          newRecord, calls, response>>

NoRequest == [authorization |-> Null, hostname |-> Null, myip |-> Null]
\* the WWW-Authenticate header of a Response: none, line 49 or line 78
NoChallenge == ""
ScopeChallenge == "Basic realm=\"my scope\", charset=\"UTF-8\""
WorkerChallenge == "Basic realm=\"Cloudflare DDNS Worker\", charset=\"UTF-8\""

NoResponse == [status |-> 0, body |-> "", challenge |-> NoChallenge]
Response(status, body, challenge) ==
    [status |-> status, body |-> body, challenge |-> challenge]

Call(op) == [op |-> op, result |-> "pending"]
\* the calls of request r with the result of the last one filled in
Settled(r, result) ==
    [calls[r] EXCEPT ![Len(calls[r])] = [@ EXCEPT !.result = result]]

\* the largest record id the provider has given out
RECURSIVE MaxId(_)
MaxId(rs) == IF rs = <<>> THEN 0 ELSE Max(Head(rs).id, MaxId(Tail(rs)))
FreshId == 1 + Max(MaxId(provRecords["z1"]), MaxId(provRecords["z2"]))

InitRequests ==
    /\ request = [r \in Requests |-> NoRequest]
    /\ pc = [r \in Requests |-> "idle"]
    /\ zone = [r \in Requests |-> NoZone]
    /\ records = [r \in Requests |-> <<>>]
    /\ record = [r \in Requests |-> NoRecord]
    /\ newRecord = [r \in Requests |-> NoBody]
    /\ calls = [r \in Requests |-> <<>>]
    /\ response = [r \in Requests |-> NoResponse]

Init ==
    /\ env \in Envs
    /\ provZones \in ZoneLists
    /\ \E r1 \in InitialRecords1, r2 \in InitialRecords2 :
          provRecords = [z \in ZoneIds |-> IF z = "z1" THEN r1 ELSE r2]
    /\ InitRequests

(***************************************************************************)
(* fetch, one action for each stretch between two awaits.                  *)
(***************************************************************************)
\* the handler returns a Response
Return(r, resp) ==
    /\ pc' = [pc EXCEPT ![r] = "done"]
    /\ response' = [response EXCEPT ![r] = resp]

\* lines 36-96: the request arrives; authentication and the parameter checks
\* run, and zones.list is issued
Fetch(r, authorization, hostname, myip) ==
    /\ pc[r] = "idle"
    /\ request' = [request EXCEPT ![r] =
                      [authorization |-> authorization, hostname |-> hostname,
                       myip |-> myip]]
    /\ LET gate == AuthGate(authorization, env)
       IN  IF gate = "Unauthenticated"
           THEN Return(r, Response(401, "You need to login.", ScopeChallenge))
                    /\ UNCHANGED calls
           ELSE IF gate = "Malformed"
           THEN Return(r, Response(400, "Malformed authorization header.", NoChallenge))
                    /\ UNCHANGED calls
           ELSE IF gate = "Invalid"
           THEN Return(r, Response(401, "You need to login.", WorkerChallenge))
                    /\ UNCHANGED calls
           ELSE IF Falsy(hostname)
           THEN Return(r, Response(400, "No hostname provided", NoChallenge))
                    /\ UNCHANGED calls
           ELSE IF Falsy(myip)
           THEN Return(r, Response(400, "No myip provided", NoChallenge))
                    /\ UNCHANGED calls
           ELSE /\ pc' = [pc EXCEPT ![r] = "listZones"]
                /\ calls' = [calls EXCEPT ![r] = <<Call("listZones")>>]
                /\ UNCHANGED response
    /\ UNCHANGED <<env, provZones, provRecords, zone, records, record, newRecord>>

\* a handler that asks for the zones again when the call fails
ZonesFailedRetry(r) ==
    /\ pc[r] = "listZones"
    /\ calls' = [calls EXCEPT ![r] = Append(Settled(r, "failed"), Call("listZones"))]
    /\ UNCHANGED <<env, provZones, provRecords, request, pc, zone, records,
                   record, newRecord, response>>

\* line 96 throws: it is outside the try block, so fetch rejects
ZonesFailed(r) ==
    /\ pc[r] = "listZones"
    /\ pc' = [pc EXCEPT ![r] = "threw"]
    /\ calls' = [calls EXCEPT ![r] = Settled(r, "failed")]
    /\ UNCHANGED <<env, provZones, provRecords, request, zone, records, record,
                   newRecord, response>>

\* lines 96-112: zones.list returns; the zone is looked up, then the address
\* is classified, and records.list is issued
ZonesListed(r) ==
    /\ pc[r] = "listZones"
    /\ LET hostname == request[r].hostname.value
           myip == request[r].myip.value
           after == AfterZones(provZones, hostname, myip)
       IN  /\ zone' = [zone EXCEPT ![r] = FindZone(provZones, hostname)]
           /\ IF after = "ZoneNotFound"
              THEN /\ Return(r, Response(400, "Zone not found", NoChallenge))
                   /\ calls' = [calls EXCEPT ![r] = Settled(r, "ok")]
              ELSE IF after = "InvalidAddress"
              THEN /\ Return(r, Response(400, "Invalid IP address", NoChallenge))
                   /\ calls' = [calls EXCEPT ![r] = Settled(r, "ok")]
              ELSE /\ pc' = [pc EXCEPT ![r] = "listRecords"]
                   /\ calls' = [calls EXCEPT ![r] =
                                   Append(Settled(r, "ok"), Call("listRecords"))]
                   /\ UNCHANGED response
    /\ UNCHANGED <<env, provZones, provRecords, request, records, record, newRecord>>

\* lines 159-162: a provider call inside the try block throws
Caught(r) ==
    /\ calls' = [calls EXCEPT ![r] = Settled(r, "failed")]
    /\ Return(r, Response(500, "Error modifying DNS record", NoChallenge))

\* line 112 throws
RecordsFailed(r) ==
    /\ pc[r] = "listRecords"
    /\ Caught(r)
    /\ UNCHANGED <<env, provZones, provRecords, request, zone, records, record,
                   newRecord>>

\* lines 112-152: records.list has returned; the record is looked up, the
\* body is built, and create or update is issued
Resolve(r) ==
    LET hostname == request[r].hostname.value
        myip == request[r].myip.value
        rs == provRecords[zone[r].id]
        found == FindRecord(rs, hostname)
        body == NewRecord(hostname, zone[r].name, myip)
    IN  /\ records' = [records EXCEPT ![r] = rs]
        /\ record' = [record EXCEPT ![r] = found]
        /\ newRecord' = [newRecord EXCEPT ![r] = body]
        /\ IF body.type = ""
           THEN /\ Return(r, Response(400, "Invalid IP address", NoChallenge))
                /\ calls' = [calls EXCEPT ![r] = Settled(r, "ok")]
           ELSE IF found.id = 0
           THEN /\ pc' = [pc EXCEPT ![r] = "create"]
                /\ calls' = [calls EXCEPT ![r] =
                                Append(Settled(r, "ok"), Call("createRecord"))]
                /\ UNCHANGED response
           ELSE /\ pc' = [pc EXCEPT ![r] = "update"]
                /\ calls' = [calls EXCEPT ![r] =
                                Append(Settled(r, "ok"), Call("updateRecord"))]
                /\ UNCHANGED response
        /\ UNCHANGED <<env, provZones, provRecords, request, zone>>

\* line 112 returns
RecordsListed(r) ==
    /\ pc[r] = "listRecords"
    /\ Resolve(r)

\* line 145 or line 152 throws
WriteFailed(r) ==
    /\ pc[r] \in {"create", "update"}
    /\ Caught(r)
    /\ UNCHANGED <<env, provZones, provRecords, request, zone, records, record,
                   newRecord>>

\* a create that leaves the records alone when one of that name is there
CreatedUnlessPresent(r) ==
    /\ pc[r] = "create"
    /\ provRecords' = [provRecords EXCEPT ![zone[r].id] =
                          IF \E i \in 1..Len(@) :
                                @[i].name = ProviderName(newRecord[r].name, zone[r].name)
                          THEN @
                          ELSE Append(@, Stored(FreshId, newRecord[r], zone[r].name))]
    /\ calls' = [calls EXCEPT ![r] = Settled(r, "ok")]
    /\ Return(r, Response(200, "DNS record created successfully", NoChallenge))
    /\ UNCHANGED <<env, provZones, request, zone, records, record, newRecord>>

\* lines 145-147: records.create returns
Created(r) ==
    /\ pc[r] = "create"
    /\ provRecords' = [provRecords EXCEPT ![zone[r].id] =
                          Append(@, Stored(FreshId, newRecord[r], zone[r].name))]
    /\ calls' = [calls EXCEPT ![r] = Settled(r, "ok")]
    /\ Return(r, Response(200, "DNS record created successfully", NoChallenge))
    /\ UNCHANGED <<env, provZones, request, zone, records, record, newRecord>>

\* lines 152-158: records.update returns
Updated(r) ==
    /\ pc[r] = "update"
    /\ provRecords' = [provRecords EXCEPT ![zone[r].id] =
                          [i \in 1..Len(@) |->
                              IF @[i].id = record[r].id
                              THEN Stored(record[r].id, newRecord[r], zone[r].name)
                              ELSE @[i]]]
    /\ calls' = [calls EXCEPT ![r] = Settled(r, "ok")]
    /\ Return(r, Response(200, "DNS record updated successfully", NoChallenge))
    /\ UNCHANGED <<env, provZones, request, zone, records, record, newRecord>>

\* what a request does once it has arrived
Step(r) ==
    \/ ZonesFailed(r)
    \/ ZonesListed(r)
    \/ RecordsFailed(r)
    \/ RecordsListed(r)
    \/ WriteFailed(r)
    \/ Created(r)
    \/ Updated(r)

(***************************************************************************)
(* One request, with any header, parameters, configuration and provider    *)
(* state.                                                                  *)
(***************************************************************************)
Next ==
    \/ \E a \in Authorizations, h \in Hostnames, m \in MyIps : Fetch(1, a, h, m)
    \/ Step(1)

Spec == Init /\ [][Next]_vars

(***************************************************************************)
(* Overlapping requests: authenticated requests for names of zone e.c,     *)
(* handled concurrently, each step of each request interleaved freely.     *)
(***************************************************************************)
EnvUP == [BASIC_USER |-> Str(<<"u">>), BASIC_PASS |-> Str(<<"p">>)]
AuthUP == Some(Basic \o Space \o TokUP)

Concurrent == 1..MaxConcurrent

InitRace ==
    /\ env = EnvUP
    /\ provZones = <<Zone1, Zone2>>
    /\ \E r1 \in {<<>>, <<Rec(1, HostW, "A", Old4)>>} :
          provRecords = [z \in ZoneIds |-> IF z = "z1" THEN r1 ELSE <<>>]
    /\ InitRequests

NextRace ==
    \E r \in Concurrent :
        \/ \E m \in {Some(Ip4), Some(Ip6)} : Fetch(r, AuthUP, Some(HostHome), m)
        \/ Step(r)

SpecRace == InitRace /\ [][NextRace]_vars

(***************************************************************************)
(* Requests for one hostname served one after another: a request arrives   *)
(* only when every earlier one has ended.                                  *)
(***************************************************************************)
Sequential == 1..MaxSequential

Ended(r) == pc[r] \in {"done", "threw"}

InitSeq ==
    /\ env = EnvUP
    /\ provZones = <<Zone1, Zone2>>
    /\ \E r1 \in {<<>>,
                  <<Rec(1, HostW, "A", Old4), Rec(2, HostHome, "AAAA", Old6)>>,
                  <<Rec(1, HostApex, "A", Old4)>>} :
          provRecords = [z \in ZoneIds |-> IF z = "z1" THEN r1 ELSE <<>>]
    /\ InitRequests

NextSeq ==
    \E r \in Sequential :
        \/ /\ \A q \in 1..(r - 1) : Ended(q)
           /\ \E h \in {Some(HostHome), Some(HostApex), Some(HostTwice)},
                 m \in {Some(Ip4), Some(Ip4Zeros), Some(Ip6)} :
                 /\ r > 1 => h = request[1].hostname
                 /\ Fetch(r, AuthUP, h, m)
        \/ Step(r)

SpecSeq == InitSeq /\ [][NextSeq]_vars

(***************************************************************************)
(* Properties.                                                             *)
(***************************************************************************)
Writes == {"createRecord", "updateRecord"}
HasWrite(r) == \E i \in 1..Len(calls[r]) : calls[r][i].op \in Writes
HasFailure(r) == \E i \in 1..Len(calls[r]) : calls[r][i].result = "failed"
Authenticated(r) == AuthGate(request[r].authorization, env) = "Authenticated"
ParametersPresent(r) == ~Falsy(request[r].hostname) /\ ~Falsy(request[r].myip)
ZoneMatches(hostname) ==
    \E i \in 1..Len(provZones) : EndsWith(hostname, provZones[i].name)
\* A valid IPv4 literal: four dot-separated decimal octets, each in 0..255
\* and without a leading zero, and nothing else.
IsDecimalOctet(g) ==
    /\ Len(g) \in 1..3
    /\ \A i \in 1..Len(g) : IsDigit(g[i])
    /\ Len(g) > 1 => g[1] # Zero[1]
    /\ ValueOf(g, 10) <= 255
ValidIPv4Literal(a) ==
    /\ Len(Split(a, Dot)) = 4
    /\ \A i \in 1..4 : IsDecimalOctet(Split(a, Dot)[i])
\* A valid IPv6 literal: colon-separated groups of one to four hexadecimal
\* digits, the last of which may be an IPv4 literal standing for two groups;
\* eight groups, or fewer with one "::" in the place of the missing ones;
\* and nothing else (no "/mask", no "%zone").
IsHexGroup(g) == Len(g) \in 1..4 /\ \A i \in 1..Len(g) : IsHexDigit(g[i])
HexGroups(gs) == \A i \in 1..Len(gs) : IsHexGroup(gs[i])
HasIPv4Tail(gs) == gs # <<>> /\ ValidIPv4Literal(gs[Len(gs)])
HexGroupsAndTail(gs) ==
    IF HasIPv4Tail(gs) THEN HexGroups(SubSeq(gs, 1, Len(gs) - 1))
    ELSE HexGroups(gs)
GroupsWidth(gs) == Len(gs) + (IF HasIPv4Tail(gs) THEN 1 ELSE 0)
ValidIPv6Halves(a, halves) ==
    IF Len(halves) = 1
    THEN HexGroupsAndTail(Split(a, Colon)) /\ GroupsWidth(Split(a, Colon)) = 8
    ELSE IF Len(halves) = 2
    THEN /\ HexGroups(HalfGroups(halves[1]))
         /\ HexGroupsAndTail(HalfGroups(halves[2]))
         /\ Len(HalfGroups(halves[1])) + GroupsWidth(HalfGroups(halves[2])) <= 7
    ELSE FALSE
ValidIPv6Literal(a) == ValidIPv6Halves(a, Split(a, Colon \o Colon))
\* myip is a valid IPv4 or IPv6 literal
ValidAddress(myip) == ValidIPv4Literal(myip) \/ ValidIPv6Literal(myip)
HostOf(r) == request[r].hostname.value
IpOf(r) == request[r].myip.value
\* the positions of the listed records whose name is the request's hostname
Matching(r) == {i \in 1..Len(records[r]) : records[r][i].name = HostOf(r)}
First(S) == CHOOSE i \in S : \A j \in S : i <= j

\* C1: a provider write is issued only by a request whose Authorization header
\* was accepted, whose hostname and myip were present, whose hostname some zone
\* matched and whose myip is a valid IPv4 or IPv6 literal; a request answered
\* 400 or 401 has issued no create and no update.
C1_WriteOnlyAfterEveryCheck ==
    \A r \in Requests :
        /\ HasWrite(r) =>
              /\ Authenticated(r)
              /\ ParametersPresent(r)
              /\ ZoneMatches(HostOf(r))
              /\ ValidAddress(IpOf(r))
        /\ response[r].status \in {400, 401} => ~HasWrite(r)

\* C2: a request one of whose provider calls (listZones, listRecords,
\* createRecord, updateRecord) failed ends with the response 500 "Error
\* modifying DNS record", and issued no call after the failed one.
C2_ProviderFailureIs500 ==
    \A r \in Requests :
        (Ended(r) /\ HasFailure(r)) =>
            /\ pc[r] = "done"
            /\ response[r] = Response(500, "Error modifying DNS record", NoChallenge)
            /\ calls[r][Len(calls[r])].result = "failed"

\* did the request get past authentication
Proceeded(r) ==
    /\ pc[r] # "idle"
    /\ response[r].body \notin {"You need to login.", "Malformed authorization header."}

\* the header is Basic and a token, and the bytes of the decoded token have a
\* colon, the bytes of the expected username before the first one and the
\* bytes of the expected password after it
CredentialsMatch(authorization, e) ==
    /\ ~Falsy(authorization)
    /\ LET parts == Split(authorization.value, Space)
       IN  /\ Len(parts) >= 2
           /\ parts[1] = Basic
           /\ parts[2] # <<>>
           /\ LET bytes == Base64Decode(parts[2])
                  i == IndexOf(bytes, Colon)
              IN  /\ i >= 0
                  /\ SubSeq(bytes, 1, i) = Encode(e.BASIC_USER)
                  /\ SubSeq(bytes, i + 2, Len(bytes)) = Encode(e.BASIC_PASS)

\* the scheme is not Basic or the token is missing
MalformedHeader(authorization) ==
    LET parts == Split(authorization.value, Space)
    IN  parts[1] # Basic \/ Len(parts) < 2 \/ parts[2] = <<>>

\* the response is 401 "You need to login." with a WWW-Authenticate header
Challenged(r) ==
    /\ response[r].status = 401
    /\ response[r].body = "You need to login."
    /\ response[r].challenge # NoChallenge

\* C3: a request gets past authentication only if its header is Basic and a
\* token whose decoding splits at its first colon into the expected username
\* and the expected password; otherwise it is answered 401 with a challenge
\* when the header is absent or the credentials do not match, and 400 when the
\* scheme is not Basic or the token is missing.
C3_AuthGateOutcome ==
    \A r \in Requests :
        pc[r] # "idle" =>
            LET a == request[r].authorization
            IN  IF CredentialsMatch(a, env) THEN Proceeded(r)
                ELSE /\ ~Proceeded(r)
                     /\ IF Falsy(a) \/ ~MalformedHeader(a)
                        THEN Challenged(r)
                        ELSE response[r] =
                                Response(400, "Malformed authorization header.", NoChallenge)

\* C4: once the records of the zone are listed, exactly one write is issued:
\* createRecord when no listed record has the hostname as its name, and
\* otherwise updateRecord keyed by the id of the first listed record of that
\* name, whatever its type, carrying the new type and content; when the write
\* succeeds the response is 200 "created" or "updated" and the provider holds
\* the new record, or the first record of that name with its type and content
\* replaced.
C4_CreateOrUpdate ==
    \A r \in Requests :
        (Len(calls[r]) >= 2 /\ calls[r][2].result = "ok") =>
            LET M == Matching(r)
                now == provRecords[zone[r].id]
                wrote == pc[r] = "done" /\ calls[r][3].result = "ok"
            IN  /\ Len(calls[r]) = 3
                /\ newRecord[r].type = IF Address4IsValid(IpOf(r)) THEN "A" ELSE "AAAA"
                /\ newRecord[r].content = AddressOf(IpOf(r)).correct
                /\ IF M = {}
                   THEN /\ calls[r][3].op = "createRecord"
                        /\ wrote =>
                             /\ response[r] =
                                   Response(200, "DNS record created successfully", NoChallenge)
                             /\ Len(now) = Len(records[r]) + 1
                             /\ SubSeq(now, 1, Len(records[r])) = records[r]
                             /\ now[Len(now)].type = newRecord[r].type
                             /\ now[Len(now)].content = newRecord[r].content
                   ELSE /\ calls[r][3].op = "updateRecord"
                        /\ record[r] = records[r][First(M)]
                        /\ wrote =>
                             /\ response[r] =
                                   Response(200, "DNS record updated successfully", NoChallenge)
                             /\ Len(now) = Len(records[r])
                             /\ \A i \in 1..Len(now) :
                                   i # First(M) => now[i] = records[r][i]
                             /\ now[First(M)].id = records[r][First(M)].id
                             /\ now[First(M)].type = newRecord[r].type
                             /\ now[First(M)].content = newRecord[r].content

\* two listed records have the name; the first, of the other address family,
\* was the one updated
C4_Witness ==
    /\ pc[1] = "done"
    /\ response[1].body = "DNS record updated successfully"
    /\ Cardinality(Matching(1)) = 2
    /\ record[1].type = "AAAA"
    /\ newRecord[1].type = "A"

\* the hostname without its trailing ".<zone name>", "@" for the zone's name
SuffixStripped(hostname, zoneName) ==
    IF hostname = zoneName THEN At
    ELSE IF EndsWith(hostname, Dot \o zoneName)
    THEN SubSeq(hostname, 1, Len(hostname) - Len(zoneName) - 1)
    ELSE hostname

\* C5: the name of the record body is "@" when the hostname is the zone's name
\* and otherwise the hostname with exactly its trailing ".<zone name>" removed.
C5_RecordBodyName ==
    \A r \in Requests :
        newRecord[r] # NoBody =>
            newRecord[r].name = SuffixStripped(HostOf(r), zone[r].name)

\* C6: the provider calls of a request are a prefix of listZones, listRecords,
\* one of createRecord and updateRecord; every call before the last has
\* returned successfully, so a call is issued only after the result of the one
\* before it, and none follows a failed one.
C6_CallOrder ==
    \A r \in Requests :
        /\ Len(calls[r]) <= 3
        /\ Len(calls[r]) >= 1 => calls[r][1].op = "listZones"
        /\ Len(calls[r]) >= 2 => calls[r][2].op = "listRecords"
        /\ Len(calls[r]) >= 3 => calls[r][3].op \in Writes
        /\ \A i \in 1..(Len(calls[r]) - 1) : calls[r][i].result = "ok"
        /\ Ended(r) /\ calls[r] # <<>> => calls[r][Len(calls[r])].result # "pending"

\* a request that made all three calls, each after the one before it returned
C6_Witness ==
    /\ pc[1] = "done"
    /\ Len(calls[1]) = 3
    /\ calls[1][3].result = "ok"

\* C7: an authenticated request with hostname and myip present whose
\* myip is no valid literal is answered 400 "Invalid IP address", whether or
\* not a zone matches the hostname.
C7_InvalidAddressFirst ==
    \A r \in Requests :
        ( /\ pc[r] \in {"done", "threw"}
          /\ Authenticated(r)
          /\ ParametersPresent(r)
          /\ ~ValidAddress(IpOf(r)) ) =>
            response[r] = Response(400, "Invalid IP address", NoChallenge)

\* C8: the zone of a request is the first zone, in the order zones.list
\* returned them, whose name the hostname ends with, however long the name;
\* its records are the ones listed and written, the other zone's are left
\* alone; when no zone matches, the response is 400 "Zone not found".
C8_FirstMatchingZone ==
    \A r \in Requests :
        (Len(calls[r]) >= 1 /\ calls[r][1].result = "ok") =>
            IF ZoneMatches(HostOf(r))
            THEN /\ \E i \in 1..Len(provZones) :
                       /\ zone[r] = provZones[i]
                       /\ EndsWith(HostOf(r), provZones[i].name)
                       /\ \A j \in 1..(i - 1) :
                             ~EndsWith(HostOf(r), provZones[j].name)
                 /\ pc[r] \in {"create", "update"} =>
                       records[r] = provRecords[zone[r].id]
                 /\ \A z \in ZoneIds \ {zone[r].id} :
                       provRecords[z] \in InitialRecords1 \cup InitialRecords2
                 /\ (pc[r] = "done" /\ response[r].status = 200) =>
                       \E i \in 1..Len(provRecords[zone[r].id]) :
                           /\ provRecords[zone[r].id][i].content = newRecord[r].content
                           /\ provRecords[zone[r].id][i].type = newRecord[r].type
                           /\ provRecords[zone[r].id][i].name =
                                 ProviderName(newRecord[r].name, zone[r].name)
            ELSE /\ zone[r] = NoZone
                 /\ Len(calls[r]) = 1
                 /\ response[r] = Response(400, "Zone not found", NoChallenge)

\* e.c is listed before s.e.c, both match h.s.e.c, and the write went to e.c
C8_Witness ==
    /\ provZones = <<Zone1, Zone2>>
    /\ HostOf(1) = HostChild
    /\ zone[1] = Zone1
    /\ pc[1] = "done"
    /\ response[1].status = 200

\* C9: nothing deduplicates overlapping requests.  A request that listed no
\* record of its hostname issues createRecord, and every createRecord that
\* succeeds adds a record of its own, whatever the other requests did in the
\* meantime: the zone holds as many records of the hostname as there were
\* successful creates.
C9_EveryAbsenceCreates ==
    /\ \A r \in Concurrent : pc[r] = "create" => Matching(r) = {}
    /\ Cardinality({i \in 1..Len(provRecords["z1"]) :
                       provRecords["z1"][i].name = HostHome})
         = Cardinality({r \in Concurrent :
                           /\ Len(calls[r]) = 3
                           /\ calls[r][3] = [op |-> "createRecord", result |-> "ok"]})

\* two requests for one hostname both listed no record of it and both created:
\* the provider holds two records of that name
C9_Witness ==
    /\ pc[1] = "done" /\ pc[2] = "done"
    /\ Len(calls[1]) = 3 /\ Len(calls[2]) = 3
    /\ HostOf(1) = HostOf(2)
    /\ Matching(1) = {} /\ Matching(2) = {}
    /\ calls[1][3] = [op |-> "createRecord", result |-> "ok"]
    /\ calls[2][3] = [op |-> "createRecord", result |-> "ok"]
    /\ Cardinality({i \in 1..Len(provRecords["z1"]) :
                       provRecords["z1"][i].name = HostOf(1)}) = 2

\* the requests that have arrived
Arrived == {r \in Sequential : pc[r] # "idle"}
\* the latest request that ended
LastEnded == CHOOSE r \in Arrived : Ended(r) /\ \A q \in Arrived : Ended(q) => q <= r
\* the provider's records of the request's zone that have its hostname as name
Named(r) ==
    {i \in 1..Len(provRecords[zone[r].id]) :
        provRecords[zone[r].id][i].name = HostOf(r)}

\* the case of C10: every request so far is for the hostname of the first,
\* every one that ended succeeded, and the provider lists a record created for
\* that hostname under the hostname
SequentialSuccess ==
    /\ \A r \in Arrived : HostOf(r) = HostOf(1)
    /\ \A r \in Arrived : Ended(r) => pc[r] = "done" /\ response[r].status = 200
    /\ \A r \in Arrived : ~HasFailure(r)
    /\ \A r \in Arrived :
          newRecord[r] # NoBody =>
              ProviderName(newRecord[r].name, zone[r].name) = HostOf(r)

\* C10: after requests for one hostname served one after another, all
\* successful, from a zone with at most one record of that name: the zone holds
\* exactly one record of that name; its type is A for an IPv4 and AAAA for an
\* IPv6 myip of the last request and its content is the canonical form of that
\* myip; only a first request that found no record created, every other one
\* updated; and a request with the address of the one before it leaves the
\* records as they were.
C10_SequentialUpsert ==
    (SequentialSuccess /\ \E r \in Arrived : Ended(r)) =>
        LET last == LastEnded
            now == provRecords[zone[last].id]
        IN  /\ pc[last] = "done" =>
                  /\ Cardinality(Named(last)) = 1
                  /\ LET rec == now[First(Named(last))]
                     IN  /\ rec.type = IF Address4IsValid(IpOf(last)) THEN "A" ELSE "AAAA"
                         /\ rec.content = AddressOf(IpOf(last)).correct
                         /\ AddressOf(rec.content).correct = rec.content
                         /\ Address4IsValid(rec.content) <=> rec.type = "A"
                         /\ rec.ttl = 300 /\ rec.proxied = FALSE
            /\ \A r \in Arrived :
                  Len(calls[r]) = 3 =>
                      (calls[r][3].op = "createRecord" <=> (r = 1 /\ Matching(1) = {}))
            /\ \A r \in Arrived :
                  (r > 1 /\ r = last /\ AddressOf(IpOf(r)) = AddressOf(IpOf(r - 1))) =>
                      now = records[r]

\* three requests for h.e.c served in turn from a zone without such a record:
\* created, updated to another family, then repeated under another spelling
C10_Witness ==
    /\ SequentialSuccess
    /\ \A r \in 1..3 : pc[r] = "done"
    /\ calls[1][3].op = "createRecord"
    /\ calls[2][3].op = "updateRecord"
    /\ newRecord[1].type # newRecord[2].type
    /\ IpOf(3) # IpOf(2) /\ AddressOf(IpOf(3)) = AddressOf(IpOf(2))
====
